---- MODULE Spec2Model ----
(***************************************************************************)
(* A model of rusty-stub-api: the specification compiler                   *)
(* (build_endpoints_from_spec, process_operation, generate_stub_response), *)
(* the path template matcher (paths_match) and the two dispatchers         *)
(* (api_redirect, dynamic_handler) of src/src/transactions.rs.             *)
(*                                                                         *)
(* Rust Strings are sequences of one-character strings.  The templates of  *)
(* the model hold no digit, comma or backslash, so a "{" that survives in  *)
(* a pattern can never open a valid counted repetition, and every          *)
(* backslash of a pattern comes from the escaping pass of paths_match.     *)
(*                                                                         *)
(* Three specifications share the variables: Spec is the server (main      *)
(* builds the table, workers dispatch requests), BuildSpec is the compiler *)
(* over a larger family of documents, MatchSpec is the matcher over all    *)
(* short templates and paths.                                              *)
(***************************************************************************)
EXTENDS Integers, Sequences, FiniteSets, TLC

(***************************************************************************)
(* Bounds of the model.                                                    *)
(***************************************************************************)
\* longest template of the matcher specification, counted in atoms
MaxAtoms == 3
\* longest concrete request path of the matcher specification, in characters
MaxPathLen == 3
\* number of concurrent request workers of the server specification
NumWorkers == 2
\* most path entries of a document of the compiler specification
MaxPaths == 2
\* most declared responses of an operation of the compiler specification
MaxResponses == 3

(***************************************************************************)
(* String helpers: str::replace, starts_with, trim_start_matches,          *)
(* to_lowercase.                                                           *)
(***************************************************************************)
StartsWithAt(s, pat, i) ==
    /\ i + Len(pat) - 1 <= Len(s)
    /\ \A k \in 1..Len(pat) : s[i + k - 1] = pat[k]

RECURSIVE ReplaceFrom(_, _, _, _)
ReplaceFrom(s, from, to, i) ==
    IF i > Len(s) THEN <<>>
    ELSE IF StartsWithAt(s, from, i)
         THEN to \o ReplaceFrom(s, from, to, i + Len(from))
         ELSE <<s[i]>> \o ReplaceFrom(s, from, to, i + 1)

\* str::replace(from, to): every non-overlapping occurrence, left to right
Replace(s, from, to) == ReplaceFrom(s, from, to, 1)

RECURSIVE TrimStartMatches(_, _)
\* str::trim_start_matches(prefix): the prefix is removed repeatedly
TrimStartMatches(s, prefix) ==
    IF Len(prefix) > 0 /\ StartsWithAt(s, prefix, 1)
    THEN TrimStartMatches(SubSeq(s, Len(prefix) + 1, Len(s)), prefix)
    ELSE s

UpperChars ==
    <<"A", "B", "C", "D", "E", "F", "G", "H", "I", "J", "K", "L", "M",
      "N", "O", "P", "Q", "R", "S", "T", "U", "V", "W", "X", "Y", "Z">>
LowerChars ==
    <<"a", "b", "c", "d", "e", "f", "g", "h", "i", "j", "k", "l", "m",
      "n", "o", "p", "q", "r", "s", "t", "u", "v", "w", "x", "y", "z">>

LowerChar(c) ==
    IF \E k \in 1..Len(UpperChars) : UpperChars[k] = c
    THEN LowerChars[CHOOSE k \in 1..Len(UpperChars) : UpperChars[k] = c]
    ELSE c

\* str::to_lowercase
to_lowercase(s) == [k \in 1..Len(s) |-> LowerChar(s[k])]

(***************************************************************************)
(* The regex engine, as far as the patterns of this program use it.        *)
(* Regex::new parses the pattern; is_match is an unanchored search.        *)
(***************************************************************************)
\* the characters a backslash may escape in the patterns paths_match builds
EscapableMeta == {".", "?", "+", "*", "(", ")", "[", "]"}

\* operators that paths_match always escapes before compiling; the model
\* does not implement them unescaped
UnsupportedMeta == {"?", "+", "*", "(", ")", "["}

RECURSIVE RegexTokens(_, _)
RegexTokens(p, i) ==
    IF i > Len(p) THEN <<>>
    ELSE IF p[i] = "\\"
         THEN IF i + 1 <= Len(p) /\ p[i + 1] \in EscapableMeta
              THEN <<[k |-> "lit", c |-> p[i + 1]]>> \o RegexTokens(p, i + 2)
              ELSE <<[k |-> "err", c |-> p[i]]>>
    ELSE IF p[i] = "{" \/ p[i] \in UnsupportedMeta
         THEN <<[k |-> "err", c |-> p[i]]>>
    ELSE IF p[i] = "." THEN <<[k |-> "any", c |-> p[i]]>> \o RegexTokens(p, i + 1)
    ELSE IF p[i] = "^" THEN <<[k |-> "start", c |-> p[i]]>> \o RegexTokens(p, i + 1)
    ELSE IF p[i] = "$" THEN <<[k |-> "end", c |-> p[i]]>> \o RegexTokens(p, i + 1)
    ELSE IF p[i] = "|" THEN <<[k |-> "alt", c |-> p[i]]>> \o RegexTokens(p, i + 1)
    ELSE <<[k |-> "lit", c |-> p[i]]>> \o RegexTokens(p, i + 1)

RECURSIVE SplitAlternation(_, _, _)
SplitAlternation(toks, i, cur) ==
    IF i > Len(toks) THEN <<cur>>
    ELSE IF toks[i].k = "alt"
         THEN <<cur>> \o SplitAlternation(toks, i + 1, <<>>)
         ELSE SplitAlternation(toks, i + 1, Append(cur, toks[i]))

\* regex::Regex::new: Err on a pattern that does not parse
RegexNew(pattern) ==
    LET toks == RegexTokens(pattern, 1)
    IN  IF \E k \in 1..Len(toks) : toks[k].k = "err"
        THEN [ok |-> FALSE, alts |-> <<>>]
        ELSE [ok |-> TRUE, alts |-> SplitAlternation(toks, 1, <<>>)]

RECURSIVE MatchAt(_, _, _, _)
\* the branch items[k..] matches s from offset pos (pos characters consumed)
MatchAt(items, k, s, pos) ==
    IF k > Len(items) THEN TRUE
    ELSE IF items[k].k = "lit"
         THEN pos < Len(s) /\ s[pos + 1] = items[k].c /\ MatchAt(items, k + 1, s, pos + 1)
    ELSE IF items[k].k = "any"
         THEN pos < Len(s) /\ s[pos + 1] # "\n" /\ MatchAt(items, k + 1, s, pos + 1)
    ELSE IF items[k].k = "start"
         THEN pos = 0 /\ MatchAt(items, k + 1, s, pos)
    ELSE pos = Len(s) /\ MatchAt(items, k + 1, s, pos)

\* Regex::is_match: some branch matches at some offset of the haystack
IsMatch(re, s) ==
    \E b \in 1..Len(re.alts) : \E pos \in 0..Len(s) : MatchAt(re.alts[b], 1, s, pos)

(***************************************************************************)
(* paths_match                                                             *)
(***************************************************************************)
WildcardMarker == <<"[", "^", "/", "]", "+">>

RECURSIVE SubstituteParams(_, _, _)
\* for param in path_params: pattern = pattern.replace("{param}", "[^/]+")
SubstituteParams(pattern, path_params, i) ==
    IF i > Len(path_params) THEN pattern
    ELSE SubstituteParams(
             Replace(pattern, <<"{">> \o path_params[i] \o <<"}">>, WildcardMarker),
             path_params, i + 1)

EscapedChars == <<".", "?", "+", "*", "(", ")", "[", "]">>

RECURSIVE EscapeSpecial(_, _)
\* the chain .replace(".", "\\.").replace("?", "\\?") ... .replace("]", "\\]")
EscapeSpecial(pattern, i) ==
    IF i > Len(EscapedChars) THEN pattern
    ELSE EscapeSpecial(
             Replace(pattern, <<EscapedChars[i]>>, <<"\\", EscapedChars[i]>>), i + 1)

\* the pattern handed to Regex::new
MatchPattern(api_path, path_params) ==
    <<"^">> \o EscapeSpecial(SubstituteParams(api_path, path_params, 1), 1) \o <<"$">>

paths_match(api_path, request_path, path_params) ==
    LET re == RegexNew(MatchPattern(api_path, path_params))
    IN  IF re.ok THEN IsMatch(re, request_path) ELSE FALSE

(***************************************************************************)
(* process_operation: the parameter names of a template, the captures of   *)
(* \{([^}]+)\} in order.                                                   *)
(***************************************************************************)
\* index of the first "}" at or after i, 0 when there is none
FirstClose(path, i) ==
    IF \E j \in i..Len(path) : path[j] = "}"
    THEN CHOOSE j \in i..Len(path) :
             path[j] = "}" /\ \A h \in i..(j - 1) : path[h] # "}"
    ELSE 0

RECURSIVE CapturesFrom(_, _)
CapturesFrom(path, i) ==
    IF i > Len(path) THEN <<>>
    ELSE IF path[i] = "{" /\ FirstClose(path, i + 1) > i + 1
         THEN <<SubSeq(path, i + 1, FirstClose(path, i + 1) - 1)>>
                  \o CapturesFrom(path, FirstClose(path, i + 1) + 1)
         ELSE CapturesFrom(path, i + 1)

ExtractPathParams(path) == CapturesFrom(path, 1)

(***************************************************************************)
(* Status codes.  A declared status is StatusCode::Code(u16) or             *)
(* StatusCode::Range(u16), as 2XX; process_operation stores its Display    *)
(* form.  The model admits the codes the type admits, 99 among them.       *)
(***************************************************************************)
Code(n) == [tag |-> "Code", n |-> n]
Range(n) == [tag |-> "Range", n |-> n]

DigitChars == <<"0", "1", "2", "3", "4", "5", "6", "7", "8", "9">>

RECURSIVE DecimalString(_)
\* u16 Display
DecimalString(n) ==
    IF n < 10 THEN <<DigitChars[n + 1]>>
    ELSE DecimalString(n \div 10) \o <<DigitChars[(n % 10) + 1]>>

\* StatusCode::to_string()
StatusToString(sc) ==
    IF sc.tag = "Code" THEN DecimalString(sc.n)
    ELSE DecimalString(sc.n) \o <<"X", "X">>

IsDigit(c) == \E k \in 1..10 : DigitChars[k] = c
DigitValue(c) == (CHOOSE k \in 1..10 : DigitChars[k] = c) - 1

RECURSIVE DecimalValue(_, _)
DecimalValue(s, k) ==
    IF k = 0 THEN 0 ELSE 10 * DecimalValue(s, k - 1) + DigitValue(s[k])

U16Max == 65535

\* str::parse::<u16>(): Ok(value) or Err
ParseU16(s) ==
    IF Len(s) > 0 /\ Len(s) <= 5 /\ (\A k \in 1..Len(s) : IsDigit(s[k]))
       /\ DecimalValue(s, Len(s)) <= U16Max
    THEN [ok |-> TRUE, v |-> DecimalValue(s, Len(s))]
    ELSE [ok |-> FALSE, v |-> 0]

DefaultStatus == 200
\* response_code.parse::<u16>().unwrap_or(200)
ParsedStatus(response_code) ==
    IF ParseU16(response_code).ok THEN ParseU16(response_code).v ELSE DefaultStatus

MinStatus == 100
MaxStatus == 999
\* http::StatusCode::from_u16: Ok only for 100..=999
StatusFromU16Ok(n) == n >= MinStatus /\ n <= MaxStatus

(***************************************************************************)
(* JSON values and their text.  A text is a sequence of lexemes.           *)
(***************************************************************************)
JNum(lexeme) == [t |-> "num", v |-> lexeme]
JStr(text) == [t |-> "str", v |-> text]
JObj(members) == [t |-> "obj", v |-> members]

RECURSIVE ValueToString(_)
RECURSIVE MembersToString(_, _)
\* serde_json::Value::to_string(): the compact JSON text of a value
ValueToString(val) ==
    IF val.t = "num" THEN <<val.v>>
    ELSE IF val.t = "str" THEN <<"\"">> \o val.v \o <<"\"">>
    ELSE <<"{">> \o MembersToString(val.v, 1) \o <<"}">>

MembersToString(members, i) ==
    IF i > Len(members) THEN <<>>
    ELSE (IF i > 1 THEN <<",">> ELSE <<>>)
             \o <<"\"", members[i][1], "\"", ":">> \o ValueToString(members[i][2])
             \o MembersToString(members, i + 1)

\* HttpResponseBuilder::json(&String): the body is the JSON encoding of a
\* Rust String, so a client reads a JSON string holding the text
JsonOfString(text) == JStr(text)

DefaultStub ==
    JObj(<< <<"message", JStr(<<"This is a stub response">>)>>,
            <<"status", JStr(<<"success">>)>> >>)

(***************************************************************************)
(* generate_stub_response                                                  *)
(***************************************************************************)
NoExample == [t |-> "none", v |-> <<>>]
JsonPrefix == <<"application/json">>

RECURSIVE ExampleFrom(_, _)
ExampleFrom(content, i) ==
    IF i > Len(content) THEN NoExample
    ELSE IF StartsWithAt(content[i].type, JsonPrefix, 1) /\ content[i].example # NoExample
         THEN content[i].example
         ELSE ExampleFrom(content, i + 1)

generate_stub_response(response) ==
    IF ExampleFrom(response.content, 1) # NoExample
    THEN ExampleFrom(response.content, 1)
    ELSE DefaultStub

(***************************************************************************)
(* process_operation and build_endpoints_from_spec                         *)
(***************************************************************************)
NoOp == [present |-> FALSE, responses |-> <<>>]
Op(responses) == [present |-> TRUE, responses |-> responses]

GetName == <<"g", "e", "t">>
PostName == <<"p", "o", "s", "t">>
PutName == <<"p", "u", "t">>
DeleteName == <<"d", "e", "l", "e", "t", "e">>
PatchName == <<"p", "a", "t", "c", "h">>

EndpointHandler(path, method, status_code, response, path_params) ==
    [path |-> path,
     method |-> method,
     response_code |-> StatusToString(status_code),
     response_body |-> ValueToString(generate_stub_response(response)),
     path_params |-> path_params]

RECURSIVE ResponseRecords_StopAtReference(_, _, _, _, _)
\* ResponseRecords with break in place of continue at a reference
ResponseRecords_StopAtReference(path, method, responses, path_params, i) ==
    IF i > Len(responses) \/ responses[i].response.ref THEN <<>>
    ELSE <<EndpointHandler(path, method, responses[i].status,
                           responses[i].response, path_params)>>
             \o ResponseRecords_StopAtReference(path, method, responses, path_params, i + 1)

RECURSIVE ResponseRecords(_, _, _, _, _)
\* the loop over operation.responses.responses
ResponseRecords(path, method, responses, path_params, i) ==
    IF i > Len(responses) THEN <<>>
    ELSE IF responses[i].response.ref
         THEN ResponseRecords(path, method, responses, path_params, i + 1)
         ELSE <<EndpointHandler(path, method, responses[i].status,
                                responses[i].response, path_params)>>
                  \o ResponseRecords(path, method, responses, path_params, i + 1)

process_operation(path, method, operation, endpoints) ==
    endpoints \o ResponseRecords(path, method, operation.responses,
                                 ExtractPathParams(path), 1)

\* ProcessPathItem with a fifth branch that compiles the patch operation
ProcessPathItem_AlsoPatch(entry, endpoints) ==
    IF entry.item.ref THEN endpoints
    ELSE LET ops == entry.item.ops
             e1 == IF ops.get.present
                   THEN process_operation(entry.path, GetName, ops.get, endpoints)
                   ELSE endpoints
             e2 == IF ops.post.present
                   THEN process_operation(entry.path, PostName, ops.post, e1)
                   ELSE e1
             e3 == IF ops.put.present
                   THEN process_operation(entry.path, PutName, ops.put, e2)
                   ELSE e2
             e4 == IF ops.delete.present
                   THEN process_operation(entry.path, DeleteName, ops.delete, e3)
                   ELSE e3
             e5 == IF ops.patch.present
                   THEN process_operation(entry.path, PatchName, ops.patch, e4)
                   ELSE e4
         IN  e5

\* one iteration of the loop over openapi_spec.paths.paths
ProcessPathItem(entry, endpoints) ==
    IF entry.item.ref THEN endpoints
    ELSE LET ops == entry.item.ops
             e1 == IF ops.get.present
                   THEN process_operation(entry.path, GetName, ops.get, endpoints)
                   ELSE endpoints
             e2 == IF ops.post.present
                   THEN process_operation(entry.path, PostName, ops.post, e1)
                   ELSE e1
             e3 == IF ops.put.present
                   THEN process_operation(entry.path, PutName, ops.put, e2)
                   ELSE e2
             e4 == IF ops.delete.present
                   THEN process_operation(entry.path, DeleteName, ops.delete, e3)
                   ELSE e3
         IN  e4

RECURSIVE BuildFrom(_, _, _)
BuildFrom(paths, i, endpoints) ==
    IF i > Len(paths) THEN endpoints
    ELSE BuildFrom(paths, i + 1, ProcessPathItem(paths[i], endpoints))

build_endpoints_from_spec(spec) == BuildFrom(spec, 1, <<>>)

(***************************************************************************)
(* The dispatchers.  Both handlers run the same scan over the table.       *)
(***************************************************************************)
NoText == <<>>
Response(status, text) ==
    [kind |-> "response", status |-> status, body |-> JsonOfString(text),
     path |-> NoText, method |-> NoText]
\* HttpResponse::NotFound().json({"error": .., "path": path, "method": method})
NotFound(path, method) ==
    [kind |-> "notfound", status |-> 404, body |-> JStr(<<"Endpoint not found">>),
     path |-> path, method |-> method]
\* StatusCode::from_u16(status_code).unwrap() on an Err
Panic ==
    [kind |-> "panic", status |-> 0, body |-> JStr(NoText),
     path |-> NoText, method |-> NoText]

RECURSIVE FindEndpoint(_, _, _, _)
\* for endpoint in &app_state.endpoints { ... }, then the NotFound fallback
FindEndpoint(endpoints, i, method, path) ==
    IF i > Len(endpoints) THEN NotFound(path, method)
    ELSE IF to_lowercase(endpoints[i].method) = method
            /\ paths_match(endpoints[i].path, path, endpoints[i].path_params)
         THEN IF StatusFromU16Ok(ParsedStatus(endpoints[i].response_code))
              THEN Response(ParsedStatus(endpoints[i].response_code),
                            endpoints[i].response_body)
              ELSE Panic
         ELSE FindEndpoint(endpoints, i + 1, method, path)

ApiPrefix == <<"/", "a", "p", "i">>

api_redirect(endpoints, req) ==
    FindEndpoint(endpoints, 1, to_lowercase(req.method),
                 TrimStartMatches(req.uri, ApiPrefix))

\* index of the "/" that ends the first segment of the URI, 0 when none
SegmentEnd(uri) ==
    IF \E j \in 3..Len(uri) : uri[j] = "/"
    THEN CHOOSE j \in 3..Len(uri) : uri[j] = "/" /\ \A h \in 2..(j - 1) : uri[h] # "/"
    ELSE 0

\* the two segments the route /{method}/{path:.*} binds, in URL order
RouteSegments(uri) ==
    <<SubSeq(uri, 2, SegmentEnd(uri) - 1), SubSeq(uri, SegmentEnd(uri) + 1, Len(uri))>>

\* let (path_str, method_str) = req_path.into_inner();
dynamic_handler(endpoints, req) ==
    LET path_str == RouteSegments(req.uri)[1]
        method_str == to_lowercase(RouteSegments(req.uri)[2])
    IN  FindEndpoint(endpoints, 1, method_str, path_str)

\* .route("/api/{path:.*}", web::to(api_redirect))
ApiRoute(uri) == StartsWithAt(uri, ApiPrefix \o <<"/">>, 1)
\* .route("/{method}/{path:.*}", web::to(dynamic_handler))
DynamicRoute(uri) ==
    /\ ~ApiRoute(uri)
    /\ Len(uri) >= 3 /\ uri[1] = "/" /\ uri[2] # "/"
    /\ SegmentEnd(uri) # 0

\* TableAfterDispatch for a handler that retires the record it served
TableAfterDispatch_Consume(endpoints, result) ==
    IF result.kind = "response" THEN Tail(endpoints) ELSE endpoints

\* the handlers borrow the table immutably (&app_state.endpoints)
TableAfterDispatch(endpoints, result) == endpoints

(***************************************************************************)
(* Specification documents.  A document is the ordered map paths.paths:    *)
(* a sequence of entries with distinct templates.  A path item has one     *)
(* optional operation per method field; an operation has the ordered map   *)
(* of its responses.                                                       *)
(***************************************************************************)
PathItemFields == {"get", "put", "post", "delete", "options", "head", "patch", "trace"}

RefItem == [ref |-> TRUE, ops |-> [m \in PathItemFields |-> NoOp]]
Item(methods, responses) ==
    [ref |-> FALSE,
     ops |-> [m \in PathItemFields |-> IF m \in methods THEN Op(responses) ELSE NoOp]]

RefResponse == [ref |-> TRUE, content |-> <<>>]
InlineResponse(content) == [ref |-> FALSE, content |-> content]

Rex == JObj(<< <<"name", JStr(<<"Rex">>)>> >>)
Id7 == JObj(<< <<"id", JNum("7")>> >>)

\* a JSON content type with an example, after a content type that is not JSON
ContentWithExample(example) ==
    << [type |-> <<"text/plain">>, example |-> JStr(<<"plain">>)],
       [type |-> <<"application/json", "; charset=utf-8">>, example |-> example] >>
\* a JSON content type without an example
ContentWithoutExample ==
    << [type |-> <<"application/json">>, example |-> NoExample] >>

TPets == <<"/", "p", "e", "t", "s">>
TPet == <<"/", "p", "e", "t", "s", "/", "{", "p", "e", "t", "I", "d", "}">>
\* a template whose pattern does not compile
TOpenBrace == <<"/", "p", "e", "t", "s", "/", "{">>
\* a template without the leading "/"
TBare == <<"p", "e", "t", "s">>
BuildTemplates == {TPets, TPet, TOpenBrace}
ServerTemplates == {TPets, TPet, TOpenBrace, TBare}

DistinctPaths(d) == \A i, j \in 1..Len(d) : i # j => d[i].path # d[j].path
DistinctStatuses(r) == \A i, j \in 1..Len(r) : i # j => r[i].status # r[j].status

SeqsUpTo(S, lo, hi) == UNION {[1..n -> S] : n \in lo..hi}

\* the documents of the compiler specification
BuildMethodSets ==
    { {"get"}, {"patch"}, {"post", "get"}, {"delete", "put", "head", "options", "trace"} }
BuildItems(responses) == {RefItem} \cup {Item(ms, responses) : ms \in BuildMethodSets}
BuildResponseEntries ==
    [status : {Code(200), Code(404), Range(2)},
     response : {RefResponse, InlineResponse(ContentWithExample(Id7))}]
BuildResponseLists ==
    {r \in SeqsUpTo(BuildResponseEntries, 0, MaxResponses) : DistinctStatuses(r)}
BuildDocs ==
    UNION { {d \in SeqsUpTo([path : BuildTemplates, item : BuildItems(r)], 1, MaxPaths) :
                 DistinctPaths(d)} : r \in BuildResponseLists }

\* the documents of the server specification: one or two paths, each with
\* one operation
ServerResponseLists ==
    { << [status |-> Code(200), response |-> InlineResponse(ContentWithExample(Rex))],
         [status |-> Code(404), response |-> InlineResponse(ContentWithoutExample)] >>,
      << [status |-> Range(2), response |-> InlineResponse(ContentWithoutExample)] >>,
      << [status |-> Code(99), response |-> InlineResponse(ContentWithoutExample)] >> }
ServerEntries ==
    {[path |-> t, item |-> Item({m}, r)] :
        t \in ServerTemplates, m \in {"get", "patch"}, r \in ServerResponseLists}
ServerDocs == {d \in SeqsUpTo(ServerEntries, 1, 2) : DistinctPaths(d)}

(***************************************************************************)
(* Requests                                                                *)
(***************************************************************************)
HttpGet == <<"G", "E", "T">>
HttpPost == <<"P", "O", "S", "T">>
HttpPatch == <<"P", "A", "T", "C", "H">>

UriApiPets == <<"/", "a", "p", "i", "/", "p", "e", "t", "s">>
UriApiPet42 == <<"/", "a", "p", "i", "/", "p", "e", "t", "s", "/", "4", "2">>
\* /get//pets: first segment get, remainder /pets
UriGetPets == <<"/", "g", "e", "t", "/", "/", "p", "e", "t", "s">>
\* /pets/get: first segment pets, remainder get
UriPetsGet == <<"/", "p", "e", "t", "s", "/", "g", "e", "t">>

Requests ==
    { [method |-> HttpGet, uri |-> UriApiPets],
      [method |-> HttpGet, uri |-> UriApiPet42],
      [method |-> HttpPost, uri |-> UriApiPet42],
      [method |-> HttpPatch, uri |-> UriApiPets],
      [method |-> HttpGet, uri |-> UriGetPets],
      [method |-> HttpGet, uri |-> UriPetsGet] }

NoRequest == [method |-> NoText, uri |-> NoText]
NoResult == [kind |-> "none", status |-> 0, body |-> JStr(NoText),
             path |-> NoText, method |-> NoText]

(***************************************************************************)
(* The matcher inputs                                                      *)
(***************************************************************************)
TemplateAtoms ==
    { <<"/">>, <<"a">>, <<".">>, <<"$">>, <<"{">>, <<"}">>, <<"{", "a", "}">> }
PathChars == {"/", "a", ".", "X", "$"}

RECURSIVE Concat(_, _)
Concat(parts, i) == IF i > Len(parts) THEN <<>> ELSE parts[i] \o Concat(parts, i + 1)

MatchTemplates == {Concat(parts, 1) : parts \in SeqsUpTo(TemplateAtoms, 0, MaxAtoms)}
MatchPaths == SeqsUpTo(PathChars, 0, MaxPathLen)

(***************************************************************************)
(* State                                                                   *)
(***************************************************************************)
VARIABLES
    doc,         \* the parsed specification document
    phase,       \* "startup" before main built the table, then "serving"
    endpoints,   \* AppState.endpoints
    wreq,        \* per worker: the request it handled, or NoRequest
    wres,        \* per worker: the response it holds for that request, or NoResult
    m_pc,        \* matcher specification: "idle", "start", "extracted", "matched"
    m_template,  \* matcher specification: api_path
    m_path,      \* matcher specification: request_path
    m_params,    \* matcher specification: path_params
    m_result     \* matcher specification: what paths_match returned

vars == <<doc, phase, endpoints, wreq, wres, m_pc, m_template, m_path, m_params, m_result>>
serverVars == <<doc, phase, endpoints, wreq, wres>>
matcherVars == <<m_pc, m_template, m_path, m_params, m_result>>

Workers == 1..NumWorkers

MatcherIdle ==
    /\ m_pc = "idle"
    /\ m_template = <<>>
    /\ m_path = <<>>
    /\ m_params = <<>>
    /\ m_result = FALSE

ServerStart(docs) ==
    /\ doc \in docs
    /\ phase = "startup"
    /\ endpoints = <<>>
    /\ wreq = [w \in Workers |-> NoRequest]
    /\ wres = [w \in Workers |-> NoResult]

\* main: build the table, then start the HTTP server
Build ==
    /\ phase = "startup"
    /\ endpoints' = build_endpoints_from_spec(doc)
    /\ phase' = "serving"
    /\ UNCHANGED <<doc, wreq, wres, matcherVars>>

Idle(w) == wreq[w] = NoRequest /\ wres[w] = NoResult

\* a worker runs api_redirect on a request of the route /api/{path:.*}
ApiRedirect(w, r) ==
    /\ phase = "serving" /\ Idle(w)
    /\ ApiRoute(r.uri)
    /\ wreq' = [wreq EXCEPT ![w] = r]
    /\ wres' = [wres EXCEPT ![w] = api_redirect(endpoints, r)]
    /\ endpoints' = TableAfterDispatch(endpoints, api_redirect(endpoints, r))
    /\ UNCHANGED <<doc, phase, matcherVars>>

\* a worker runs dynamic_handler on a request of the route /{method}/{path:.*}
DynamicHandler(w, r) ==
    /\ phase = "serving" /\ Idle(w)
    /\ DynamicRoute(r.uri)
    /\ wreq' = [wreq EXCEPT ![w] = r]
    /\ wres' = [wres EXCEPT ![w] = dynamic_handler(endpoints, r)]
    /\ endpoints' = TableAfterDispatch(endpoints, dynamic_handler(endpoints, r))
    /\ UNCHANGED <<doc, phase, matcherVars>>

\* the response is written and the worker is free again
Reply(w) ==
    /\ wres[w] # NoResult
    /\ wreq' = [wreq EXCEPT ![w] = NoRequest]
    /\ wres' = [wres EXCEPT ![w] = NoResult]
    /\ UNCHANGED <<doc, phase, endpoints, matcherVars>>

Init == ServerStart(ServerDocs) /\ MatcherIdle

Next ==
    \/ Build
    \/ \E w \in Workers : \E r \in Requests : ApiRedirect(w, r)
    \/ \E w \in Workers : \E r \in Requests : DynamicHandler(w, r)
    \/ \E w \in Workers : Reply(w)

Spec == Init /\ [][Next]_vars

\* the compiler alone, over the larger family of documents
BuildInit == ServerStart(BuildDocs) /\ MatcherIdle
BuildNext == Build
BuildSpec == BuildInit /\ [][BuildNext]_vars

\* the matcher alone: process_operation extracts the names, paths_match runs
MatchExtract ==
    /\ m_pc = "start"
    /\ m_params' = ExtractPathParams(m_template)
    /\ m_pc' = "extracted"
    /\ UNCHANGED <<serverVars, m_template, m_path, m_result>>

MatchRun ==
    /\ m_pc = "extracted"
    /\ m_result' = paths_match(m_template, m_path, m_params)
    /\ m_pc' = "matched"
    /\ UNCHANGED <<serverVars, m_template, m_path, m_params>>

MatchInit ==
    /\ doc = <<>>
    /\ phase = "matcher"
    /\ endpoints = <<>>
    /\ wreq = [w \in Workers |-> NoRequest]
    /\ wres = [w \in Workers |-> NoResult]
    /\ m_pc = "start"
    /\ m_template \in MatchTemplates
    /\ m_path \in MatchPaths
    /\ m_params = <<>>
    /\ m_result = FALSE
MatchNext == MatchExtract \/ MatchRun
MatchSpec == MatchInit /\ [][MatchNext]_vars

(***************************************************************************)
(* What the design says a template matches: every "{name}" stands for a    *)
(* non-empty value; the value holds no "/" in a matching path.             *)
(***************************************************************************)
RECURSIVE TemplateParts(_, _)
TemplateParts(t, i) ==
    IF i > Len(t) THEN <<>>
    ELSE IF t[i] = "{" /\ FirstClose(t, i + 1) > i + 1
         THEN <<[hole |-> TRUE, c |-> ""]>> \o TemplateParts(t, FirstClose(t, i + 1) + 1)
         ELSE <<[hole |-> FALSE, c |-> t[i]]>> \o TemplateParts(t, i + 1)

HasSlash(s, from, to) == \E k \in from..to : s[k] = "/"

RECURSIVE Substituted(_, _, _, _, _, _)
\* s from offset pos is parts[k..] with a non-empty value in every hole;
\* slashes says whether values may hold "/", seen whether one did so far,
\* and a path counts only if seen = slashes at its end
Substituted(parts, k, s, pos, slashes, seen) ==
    IF k > Len(parts) THEN pos = Len(s) /\ seen = slashes
    ELSE IF parts[k].hole
         THEN \E n \in 1..(Len(s) - pos) :
                  /\ slashes \/ ~HasSlash(s, pos + 1, pos + n)
                  /\ Substituted(parts, k + 1, s, pos + n, slashes,
                                 seen \/ HasSlash(s, pos + 1, pos + n))
         ELSE /\ pos < Len(s) /\ s[pos + 1] = parts[k].c
              /\ Substituted(parts, k + 1, s, pos + 1, slashes, seen)

\* the path substitutes slash-free values for the placeholders of the template
DesignMatches(template, path) ==
    Substituted(TemplateParts(template, 1), 1, path, 0, FALSE, FALSE)
\* the path substitutes values of which one at least holds a "/"
SlashedInstance(template, path) ==
    Substituted(TemplateParts(template, 1), 1, path, 0, TRUE, FALSE)

SupportedNames == {GetName, PostName, PutName, DeleteName}
FieldName(m) ==
    CASE m = "get" -> GetName [] m = "post" -> PostName [] m = "put" -> PutName
      [] m = "delete" -> DeleteName [] m = "patch" -> PatchName
      [] m = "head" -> <<"h", "e", "a", "d">>
      [] m = "options" -> <<"o", "p", "t", "i", "o", "n", "s">>
      [] OTHER -> <<"t", "r", "a", "c", "e">>
SupportedFields == {"get", "post", "put", "delete"}
FieldRank(m) == CASE m = "get" -> 1 [] m = "post" -> 2 [] m = "put" -> 3 [] OTHER -> 4

Done(w) == wres[w] # NoResult
\* the path api_redirect looks up for a request
ApiPath(r) == TrimStartMatches(r.uri, ApiPrefix)

(***************************************************************************)
(* C1. Template round trip: with the names process_operation extracts,     *)
(* paths_match accepts every path that puts a non-empty slash-free value   *)
(* in each placeholder of a template that has placeholders, and rejects    *)
(* every path that puts a value holding "/" in one.                        *)
(***************************************************************************)
C1_TemplateRoundTrip ==
    (m_pc = "matched" /\ m_params # <<>>) =>
        /\ DesignMatches(m_template, m_path) => m_result
        /\ SlashedInstance(m_template, m_path) => ~m_result

(***************************************************************************)
(* C3. Literal escaping and anchoring: a template without placeholders is  *)
(* matched by the path equal to it and by no other path.                   *)
(***************************************************************************)
C3_LiteralExact ==
    (m_pc = "matched" /\ m_params = <<>>) =>
        (m_result <=> m_path = m_template)

(***************************************************************************)
(* Declarations of a document, for the claims about the table.             *)
(***************************************************************************)
\* the triples <<path index, method field, response index>> of the inline
\* responses declared under a supported method of an inline path item
DeclaredTriples ==
    UNION { {<<i, m, k>> : k \in {h \in 1..Len(doc[i].item.ops[m].responses) :
                                     ~doc[i].item.ops[m].responses[h].response.ref}} :
            i \in {j \in 1..Len(doc) : ~doc[j].item.ref},
            m \in SupportedFields }

DeclaredStatus(t) == doc[t[1]].item.ops[t[2]].responses[t[3]].status
DeclaredResponse(t) == doc[t[1]].item.ops[t[2]].responses[t[3]].response

\* the record is the one compiled from the triple
RecordOf(rec, t) ==
    /\ rec.path = doc[t[1]].path
    /\ rec.method = FieldName(t[2])
    /\ rec.response_code = StatusToString(DeclaredStatus(t))

TripleOf(rec) == CHOOSE t \in DeclaredTriples : RecordOf(rec, t)

TripleBefore(a, b) ==
    \/ a[1] < b[1]
    \/ a[1] = b[1] /\ FieldRank(a[2]) < FieldRank(b[2])
    \/ a[1] = b[1] /\ a[2] = b[2] /\ a[3] < b[3]

\* the body the design selects for a declared response: the example of its
\* first JSON content entry that has one, else the default object
JsonExamples(response) ==
    {i \in 1..Len(response.content) :
        /\ StartsWithAt(response.content[i].type, JsonPrefix, 1)
        /\ response.content[i].example # NoExample}
DesignBody(response) ==
    IF JsonExamples(response) # {}
    THEN response.content[CHOOSE i \in JsonExamples(response) :
                              \A j \in JsonExamples(response) : i <= j].example
    ELSE DefaultStub

DeclaresPetScenario ==
    /\ Len(doc) = 1
    /\ doc[1].path = TPet
    /\ doc[1].item.ops["get"].present
    /\ doc[1].item.ops["get"].responses[1].status = Code(200)
    /\ DesignBody(doc[1].item.ops["get"].responses[1].response) = Rex

(***************************************************************************)
(* C2. End to end: with GET /pets/{petId} declared alone with a 200        *)
(* response carrying the example Rex, GET /pets/42 returns 200 with body   *)
(* Rex, GET /pets returns NotFound and POST /pets/42 returns NotFound.     *)
(***************************************************************************)
C2_EndToEnd ==
    \A w \in Workers :
        (Done(w) /\ DeclaresPetScenario) =>
            /\ (wreq[w] = [method |-> HttpGet, uri |-> UriApiPet42]) =>
                   (wres[w].kind = "response" /\ wres[w].status = 200 /\ wres[w].body = Rex)
            /\ (wreq[w] = [method |-> HttpGet, uri |-> UriApiPets]) =>
                   wres[w].kind = "notfound"
            /\ (wreq[w] = [method |-> HttpPost, uri |-> UriApiPet42]) =>
                   wres[w].kind = "notfound"

(***************************************************************************)
(* C4. First declared status wins: where a path and method declare 200     *)
(* and then 404, every request for that method whose path matches the      *)
(* template gets status 200 with the body of the 200 record.               *)
(***************************************************************************)
C4_FirstStatusWins ==
    \A w \in Workers : \A i \in 1..Len(doc) : \A m \in SupportedFields :
        ( /\ Done(w) /\ ApiRoute(wreq[w].uri)
          /\ ~doc[i].item.ref /\ doc[i].item.ops[m].present
          /\ Len(doc[i].item.ops[m].responses) >= 2
          /\ doc[i].item.ops[m].responses[1].status = Code(200)
          /\ doc[i].item.ops[m].responses[2].status = Code(404)
          /\ ~doc[i].item.ops[m].responses[1].response.ref
          /\ to_lowercase(wreq[w].method) = FieldName(m)
          /\ DesignMatches(doc[i].path, ApiPath(wreq[w])) )
        => /\ wres[w].kind = "response"
           /\ wres[w].status = 200
           /\ \E a \in 1..Len(endpoints) :
                  /\ RecordOf(endpoints[a], <<i, m, 1>>)
                  /\ wres[w].body = JsonOfString(endpoints[a].response_body)

(***************************************************************************)
(* C5. Example preference: a response served from a declared response      *)
(* carries as its body the JSON value of the example of that response, or  *)
(* the default object when the response has no JSON example.               *)
(***************************************************************************)
C5_ExamplePreference ==
    \A w \in Workers :
        (Done(w) /\ wres[w].kind = "response") =>
            \E t \in DeclaredTriples : wres[w].body = DesignBody(DeclaredResponse(t))

Outcome(res) == <<res.kind, res.status, res.body>>

(***************************************************************************)
(* C10. dynamic_handler takes the first URL segment as the method and the  *)
(* remainder as the path, and answers as api_redirect answers for that     *)
(* method and path.                                                        *)
(***************************************************************************)
C10_DynamicAsApi ==
    \A w \in Workers :
        (Done(w) /\ DynamicRoute(wreq[w].uri)) =>
            Outcome(wres[w]) =
                Outcome(api_redirect(endpoints,
                    [method |-> RouteSegments(wreq[w].uri)[1],
                     uri |-> RouteSegments(wreq[w].uri)[2]]))

(***************************************************************************)
(* C6. Unsupported methods are skipped: every record of the table has a    *)
(* method among get, post, put, delete; a path item whose operations are   *)
(* all under other methods contributes no record; and a request under      *)
(* another method is answered NotFound.                                    *)
(***************************************************************************)
C6_UnsupportedSkipped ==
    phase = "serving" =>
        /\ \A a \in 1..Len(endpoints) : endpoints[a].method \in SupportedNames
        /\ \A i \in 1..Len(doc) :
               (\A m \in SupportedFields : ~doc[i].item.ops[m].present) =>
                   \A a \in 1..Len(endpoints) : endpoints[a].path # doc[i].path
        /\ \A w \in Workers :
               ( /\ Done(w) /\ ApiRoute(wreq[w].uri)
                 /\ to_lowercase(wreq[w].method) \notin SupportedNames )
               => wres[w].kind = "notfound"

\* PATCH /pets was dispatched against a document that declares /pets under patch
C6_Witness ==
    /\ phase = "serving"
    /\ \E i \in 1..Len(doc) : doc[i].path = TPets /\ doc[i].item.ops["patch"].present
    /\ \E w \in Workers :
           /\ wreq[w] = [method |-> HttpPatch, uri |-> UriApiPets]
           /\ wres[w].kind = "notfound"

SameRequestSameResult ==
    \A w1, w2 \in Workers :
        (Done(w1) /\ Done(w2) /\ wreq[w1] = wreq[w2]) => wres[w1] = wres[w2]

(***************************************************************************)
(* C7. Idempotence under concurrency: once built, the table never changes, *)
(* and two dispatch calls with the same request end with the same result,  *)
(* however the calls of the workers interleave.                            *)
(***************************************************************************)
C7_Idempotent ==
    /\ [][phase = "serving" => endpoints' = endpoints]_vars
    /\ []SameRequestSameResult

\* two workers hold a served response for the same request
C7_Witness ==
    \E w1, w2 \in Workers :
        /\ w1 # w2
        /\ wreq[w1] = wreq[w2]
        /\ wres[w1].kind = "response" /\ wres[w2].kind = "response"

(***************************************************************************)
(* C9. Table ordering: the table lists exactly the inline responses        *)
(* declared under supported methods of inline path items, one record each, *)
(* ordered by path in declaration order, then by method in the order get,  *)
(* post, put, delete, then by status in declaration order.                 *)
(***************************************************************************)
C9_TableOrder ==
    phase = "serving" =>
        /\ \A a \in 1..Len(endpoints) : \E t \in DeclaredTriples : RecordOf(endpoints[a], t)
        /\ \A t \in DeclaredTriples : \E a \in 1..Len(endpoints) : RecordOf(endpoints[a], t)
        /\ \A a, b \in 1..Len(endpoints) :
               a < b => TripleBefore(TripleOf(endpoints[a]), TripleOf(endpoints[b]))

\* two paths, each with get and post, each operation with a reference between
\* two inline responses: eight records
C9_Witness ==
    /\ phase = "serving"
    /\ Len(doc) = 2
    /\ \A i \in 1..2 :
           /\ doc[i].item.ops["get"].present /\ doc[i].item.ops["post"].present
           /\ Len(doc[i].item.ops["get"].responses) = 3
           /\ doc[i].item.ops["get"].responses[2].response.ref
    /\ Len(endpoints) = 8

(***************************************************************************)
(* What the code does where the claims above fail.                         *)
(***************************************************************************)
\* no template with a placeholder matches any path
PlaceholderNeverMatches ==
    (m_pc = "matched" /\ m_params # <<>>) => ~m_result

\* a template made of "/", "a", "." and "}" alone matches exactly its own text
LiteralExactOnEscapedChars ==
    (m_pc = "matched" /\ \A k \in 1..Len(m_template) : m_template[k] \in {"/", "a", ".", "}"})
        => (m_result <=> m_path = m_template)

\* GET /pets against /pets declared with 200 then 404 is served the 200 record
FirstStatusWinsOnLiteral ==
    \A w \in Workers : \A i \in 1..Len(doc) :
        ( /\ Done(w) /\ wreq[w] = [method |-> HttpGet, uri |-> UriApiPets]
          /\ doc[i].path = TPets /\ doc[i].item.ops["get"].present
          /\ Len(doc[i].item.ops["get"].responses) = 2
          /\ doc[i].item.ops["get"].responses[1].status = Code(200) )
        => (wres[w].kind = "response" /\ wres[w].status = 200)

\* through dynamic_handler a record is served only when the first URL segment
\* matches its template and the remainder is its method
DynamicServesSwapped ==
    \A w \in Workers :
        (Done(w) /\ DynamicRoute(wreq[w].uri) /\ wres[w].kind = "response") =>
            \E a \in 1..Len(endpoints) :
                /\ endpoints[a].method = to_lowercase(RouteSegments(wreq[w].uri)[2])
                /\ endpoints[a].path = RouteSegments(wreq[w].uri)[1]

====
